---- MODULE Spec2Model ----
(***************************************************************************)
(* Matchmaking and match-lifecycle engine of textelo.                      *)
(*                                                                         *)
(* The relational store is the record db (tables users, queue, matches,    *)
(* messages, judge_ratings).  Every storage method of DatabaseStorage is   *)
(* an operator on db; every service handler (MatchmakingService,           *)
(* GameEngine, the poll route) is a step machine whose steps are the       *)
(* awaited storage calls of its code.  A handler run to completion without *)
(* interleaving is the sequential specification Spec; the specifications   *)
(* SpecSend, SpecFind and SpecRate interleave the steps of concurrent      *)
(* handler invocations.                                                    *)
(***************************************************************************)
EXTENDS Integers, Sequences, FiniteSets, TLC

VARIABLES db, now, calls

vars == <<db, now, calls>>

(***************************************************************************)
(* Bounds of the model                                                     *)
(***************************************************************************)
MaxMatches == 1
MaxMessages == 3
MaxRatings == 3
MaxTicks == 1
MaxMatchTicks == 2
NumCalls == 2
MinElo == 1000
MaxElo == 1400
EloGrid == 25
MaxEloUpdates == 2
MaxInstants == 1
StreakLen == 80

(***************************************************************************)
(* Program constants                                                       *)
(***************************************************************************)
ELO_RANGE_BASE == 100
ELO_RANGE_EXPANSION == 50
QUEUE_TIME_EXPANSION == 30000
MATCH_DURATION == 300000
ELO_K_FACTOR == 32
AGREEMENT_BONUS == 10
DISAGREEMENT_PENALTY == 5
JUDGE_ELO_FLOOR == 800
DEFAULT_ELO == 1200
GRACE_MS == 1000

Users == {"u1", "u2", "u3", "u4"}

\* SQL NULL / JavaScript undefined in a user-id column or argument
NULL == "NULL"
\* SQL NULL in a timestamp column
NoTime == -1
\* the empty string endMatch passes as winnerId for a draw
EmptyWinner == ""

matchStatusEnum == {"waiting", "active", "completed", "forfeit"}
moveRatingEnum == {"brilliant", "great", "excellent", "good", "miss", "mistake", "blunder"}
matchTypeEnum == {"player", "judge"}

Max(a, b) == IF a >= b THEN a ELSE b

\* String.prototype.trim on the message contents the model sends
trim(s) ==
  CASE s = " hi " -> "hi"
    [] s = "  " -> ""
    [] OTHER -> s

(***************************************************************************)
(* Rows                                                                    *)
(***************************************************************************)
NewUser(elo) ==
  [elo |-> elo, peakElo |-> Max(DEFAULT_ELO, elo), judgeElo |-> DEFAULT_ELO,
   peakJudgeElo |-> DEFAULT_ELO, totalMatches |-> 0, totalJudgeMatches |-> 0,
   wins |-> 0, losses |-> 0, judgeAgreements |-> 0, judgeDisagreements |-> 0]

EmptyDb(registered) ==
  [users |-> [u \in registered |-> NewUser(DEFAULT_ELO)],
   queue |-> {},
   matches |-> <<>>,
   messages |-> <<>>,
   ratings |-> <<>>]

UserExists(d, id) == id \in DOMAIN d.users

(***************************************************************************)
(* Storage: users                                                          *)
(***************************************************************************)
getUser(d, id) == IF UserExists(d, id) THEN <<d.users[id]>> ELSE <<>>

\* a rating write whose peak follows the rating down
updateUserEloPeakFollows(d, userId, newElo) ==
  IF UserExists(d, userId)
  THEN [d EXCEPT !.users[userId] = [@ EXCEPT !.elo = newElo, !.peakElo = newElo]]
  ELSE d

updateUserElo(d, userId, newElo) ==
  IF UserExists(d, userId)
  THEN [d EXCEPT !.users[userId] =
          [@ EXCEPT !.elo = newElo, !.peakElo = Max(@, newElo)]]
  ELSE d

\* counters that book a match without a win as nothing but a match
updateUserStatsWinsOnly(d, userId, won) ==
  IF UserExists(d, userId)
  THEN [d EXCEPT !.users[userId] =
          [@ EXCEPT !.totalMatches = @ + 1,
                    !.wins = IF won THEN @ + 1 ELSE @]]
  ELSE d

updateUserStats(d, userId, won) ==
  IF UserExists(d, userId)
  THEN [d EXCEPT !.users[userId] =
          [@ EXCEPT !.totalMatches = @ + 1,
                    !.wins = IF won THEN @ + 1 ELSE @,
                    !.losses = IF won THEN @ ELSE @ + 1]]
  ELSE d

\* an UPDATE that leaves peak_judge_elo alone
updateJudgeEloNoPeak(d, userId, newJudgeElo) ==
  IF UserExists(d, userId)
  THEN [d EXCEPT !.users[userId] = [@ EXCEPT !.judgeElo = newJudgeElo]]
  ELSE d

updateJudgeElo(d, userId, newJudgeElo) ==
  IF UserExists(d, userId)
  THEN [d EXCEPT !.users[userId] =
          [@ EXCEPT !.judgeElo = newJudgeElo,
                    !.peakJudgeElo = Max(@, newJudgeElo)]]
  ELSE d

\* judge counters that book every consensus as an agreement
updateJudgeStatsAlwaysAgree(d, userId, agreed) ==
  IF UserExists(d, userId)
  THEN [d EXCEPT !.users[userId] =
          [@ EXCEPT !.totalJudgeMatches = @ + 1, !.judgeAgreements = @ + 1]]
  ELSE d

updateJudgeStats(d, userId, agreed) ==
  IF UserExists(d, userId)
  THEN [d EXCEPT !.users[userId] =
          [@ EXCEPT !.totalJudgeMatches = @ + 1,
                    !.judgeAgreements = IF agreed THEN @ + 1 ELSE @,
                    !.judgeDisagreements = IF agreed THEN @ ELSE @ + 1]]
  ELSE d

(***************************************************************************)
(* Storage: queue.  A storage write is [ok, db]; ok = FALSE is a thrown    *)
(* constraint violation, which leaves the store unchanged.                 *)
(***************************************************************************)
Ok(d) == [ok |-> TRUE, db |-> d]
Thrown(d) == [ok |-> FALSE, db |-> d]

\* an INSERT without the ON CONFLICT clause and without the unique index
joinQueueRowInsertOnly(d, userId, elo, matchType, t) ==
  IF ~UserExists(d, userId) THEN Thrown(d)
  ELSE Ok([d EXCEPT !.queue =
             @ \cup {[userId |-> userId, elo |-> elo,
                      matchType |-> matchType, joinedAt |-> t]}])

joinQueueRow(d, userId, elo, matchType, t) ==
  IF ~UserExists(d, userId) THEN Thrown(d)
  ELSE Ok([d EXCEPT !.queue =
             {e \in @ : e.userId # userId}
               \cup {[userId |-> userId, elo |-> elo,
                      matchType |-> matchType, joinedAt |-> t]}])

\* a DELETE that removes nothing
leaveQueueRowNoop(d, userId) == d

\* a DELETE without its WHERE clause
leaveQueueRowAll(d, userId) == [d EXCEPT !.queue = {}]

leaveQueueRow(d, userId) ==
  [d EXCEPT !.queue = {e \in @ : e.userId # userId}]

\* the rows an ORDER BY joined_at ASC LIMIT 1 may return: every row of S
\* with the least joinedAt (the order among equal timestamps is unspecified)
Oldest(S) == {e \in S : \A f \in S : e.joinedAt <= f.joinedAt}

\* a search without the BETWEEN condition
findMatchInQueueAnyElo(d, elo, eloRange, t) ==
  Oldest({e \in d.queue : e.matchType = "player" /\ e.joinedAt < t - GRACE_MS})

findMatchInQueue(d, elo, eloRange, t) ==
  Oldest({e \in d.queue :
            /\ e.matchType = "player"
            /\ e.elo >= elo - eloRange
            /\ e.elo <= elo + eloRange
            /\ e.joinedAt < t - GRACE_MS})

findJudgeInQueue(d, excludeUserId) ==
  Oldest({e \in d.queue :
            /\ e.matchType = "judge"
            /\ (excludeUserId # NULL => e.userId # excludeUserId)})

getUserInQueue(d, userId) == {e \in d.queue : e.userId = userId}

(***************************************************************************)
(* Storage: matches.  A match id is the row's position in db.matches.      *)
(***************************************************************************)
FkUser(d, id) == id = NULL \/ UserExists(d, id)

createMatch(d, player1Id, player2Id, judge1Id, judge2Id, t) ==
  LET full == player2Id # NULL /\ judge1Id # NULL /\ judge2Id # NULL IN
  IF ~(UserExists(d, player1Id) /\ FkUser(d, player2Id)
        /\ FkUser(d, judge1Id) /\ FkUser(d, judge2Id))
  THEN Thrown(d)
  ELSE Ok([d EXCEPT !.matches = Append(@,
             [player1Id |-> player1Id, player2Id |-> player2Id,
              judge1Id |-> judge1Id, judge2Id |-> judge2Id,
              status |-> IF full THEN "active" ELSE "waiting",
              currentTurn |-> player1Id,
              winnerId |-> NULL, player1Score |-> 0, player2Score |-> 0,
              startedAt |-> IF full THEN t ELSE NoTime,
              endedAt |-> NoTime])])

MatchExists(d, matchId) == matchId \in DOMAIN d.matches

getMatch(d, matchId) == IF MatchExists(d, matchId) THEN <<d.matches[matchId]>> ELSE <<>>

getMatchWithPlayers(d, matchId) == getMatch(d, matchId)

updateMatchStatus(d, matchId, status, t) ==
  IF MatchExists(d, matchId)
  THEN [d EXCEPT !.matches[matchId] =
          [@ EXCEPT !.status = status,
                    !.endedAt = IF status \in {"completed", "forfeit"} THEN t ELSE @]]
  ELSE d

\* an UPDATE that the store rejects
startMatchRejected(d, matchId, player2Id, judge1Id, judge2Id, t) == Thrown(d)

\* a column whose value is undefined is left out of the UPDATE
startMatch(d, matchId, player2Id, judge1Id, judge2Id, t) ==
  IF ~(FkUser(d, player2Id) /\ FkUser(d, judge1Id) /\ FkUser(d, judge2Id))
  THEN Thrown(d)
  ELSE IF ~MatchExists(d, matchId) THEN Ok(d)
  ELSE Ok([d EXCEPT !.matches[matchId] =
             [@ EXCEPT !.player2Id = IF player2Id # NULL THEN player2Id ELSE @,
                       !.judge1Id = IF judge1Id # NULL THEN judge1Id ELSE @,
                       !.judge2Id = IF judge2Id # NULL THEN judge2Id ELSE @,
                       !.status = "active",
                       !.startedAt = t]])

\* winner_id references users.id: a value that is no user id is rejected
setMatchWinner(d, matchId, winnerId, player1Score, player2Score, t) ==
  IF ~MatchExists(d, matchId) THEN Ok(d)
  ELSE IF ~UserExists(d, winnerId) THEN Thrown(d)
  ELSE Ok([d EXCEPT !.matches[matchId] =
             [@ EXCEPT !.winnerId = winnerId,
                       !.player1Score = player1Score,
                       !.player2Score = player2Score,
                       !.status = "completed",
                       !.endedAt = t]])

switchTurn(d, matchId, nextUserId) ==
  IF MatchExists(d, matchId)
  THEN [d EXCEPT !.matches[matchId] = [@ EXCEPT !.currentTurn = nextUserId]]
  ELSE d

IsParticipant(m, userId) ==
  userId \in {m.player1Id, m.player2Id, m.judge1Id, m.judge2Id}

\* a lookup that never finds a match
getUserActiveMatchNone(d, userId) == {}

\* a lookup that only sees the two players of a match
getUserActiveMatchPlayersOnly(d, userId) ==
  {i \in DOMAIN d.matches :
     /\ userId \in {d.matches[i].player1Id, d.matches[i].player2Id}
     /\ d.matches[i].status = "active"}

getUserActiveMatch(d, userId) ==
  {i \in DOMAIN d.matches :
     IsParticipant(d.matches[i], userId) /\ d.matches[i].status = "active"}

(***************************************************************************)
(* Storage: messages and judge ratings                                     *)
(***************************************************************************)
createMessage(d, matchId, userId, content) ==
  IF ~(MatchExists(d, matchId) /\ UserExists(d, userId)) THEN Thrown(d)
  ELSE Ok([d EXCEPT !.messages = Append(@,
             [matchId |-> matchId, userId |-> userId, content |-> content])])

MessageExists(d, messageId) == messageId \in DOMAIN d.messages

createJudgeRating(d, messageId, judgeId, rating) ==
  IF ~(MessageExists(d, messageId) /\ UserExists(d, judgeId)
        /\ rating \in moveRatingEnum)
  THEN Thrown(d)
  ELSE Ok([d EXCEPT !.ratings = Append(@,
             [messageId |-> messageId, judgeId |-> judgeId, rating |-> rating])])

\* ORDER BY rated_at ASC: the rows in the order of their insertion
getMessageJudgeRatings(d, messageId) ==
  SelectSeq(d.ratings, LAMBDA r : r.messageId = messageId)

(***************************************************************************)
(* GameEngine.updateEloRatings, the arithmetic.  With D = elo2 - elo1,     *)
(*   expectedScore1 = 1 / (1 + 10^(D/400)),                                *)
(* Math.round(32 * (1 - expectedScore1)) is the number of entries of       *)
(* GainBreaks that are <= D, and Math.round(32 * (0 - (1 -                 *)
(* expectedScore1))) is minus the number of entries of LossBreaks that are *)
(* <= D (both tabulated from the IEEE-754 evaluation of the code's         *)
(* expression; adding the integer elo and 32 * actualScore inside          *)
(* Math.round shifts the result by that integer).                          *)
(***************************************************************************)
GainBreaks ==
  <<-719, -523, -428, -364, -314, -273, -237, -205, -176, -149, -124,
    -100, -77, -54, -32, -10, 11, 33, 55, 78, 101, 125, 150, 177, 206,
    238, 274, 315, 365, 429, 524, 720>>

LossBreaks ==
  <<-719, -523, -428, -364, -314, -273, -237, -205, -176, -149, -124,
    -100, -77, -54, -32, -10, 11, 33, 55, 78, 101, 125, 150, 177, 206,
    238, 274, 315, 365, 429, 524, 720>>

CountLeq(breaks, D) == Cardinality({k \in DOMAIN breaks : breaks[k] <= D})

\* a score for player 1 that books a match without winner as a win
actualScore1x2NoTie(player1Id, player2Id, winnerId) ==
  IF winnerId = player2Id THEN 0 ELSE 2

\* 2 * actualScore of player 1 and of player 2 (1 win, 0 loss, 0.5 tie)
actualScore1x2(player1Id, player2Id, winnerId) ==
  IF winnerId = player1Id THEN 2 ELSE IF winnerId = player2Id THEN 0 ELSE 1

actualScore2x2(player1Id, player2Id, winnerId) ==
  IF winnerId = player1Id THEN 0 ELSE IF winnerId = player2Id THEN 2 ELSE 1

\* Math.round(elo1 + 32 * (actualScore1 - expectedScore1))
newElo1Of(elo1, elo2, a1x2) ==
  elo1 + (ELO_K_FACTOR * a1x2) \div 2 - ELO_K_FACTOR + CountLeq(GainBreaks, elo2 - elo1)

\* a change of player 2 that is rounded at other thresholds than player 1's
newElo2OfSkewed(elo1, elo2, a2x2) ==
  elo2 + (ELO_K_FACTOR * a2x2) \div 2 - CountLeq(LossBreaks, elo2 - elo1 + 12)

\* Math.round(elo2 + 32 * (actualScore2 - expectedScore2)),
\* expectedScore2 = 1 - expectedScore1
newElo2Of(elo1, elo2, a2x2) ==
  elo2 + (ELO_K_FACTOR * a2x2) \div 2 - CountLeq(LossBreaks, elo2 - elo1)

\* a search radius that never widens
eloRangeOfBase(queueTime) == ELO_RANGE_BASE

\* MatchmakingService.findMatch, the search radius after queueTime ms
eloRangeOf(queueTime) ==
  ELO_RANGE_BASE + (queueTime \div QUEUE_TIME_EXPANSION) * ELO_RANGE_EXPANSION

\* an expiry test that never fires
isMatchExpiredNever(m, t) == FALSE

\* GameEngine.isMatchExpired
isMatchExpired(m, t) ==
  IF m.startedAt = NoTime THEN FALSE ELSE t - m.startedAt > MATCH_DURATION

(***************************************************************************)
(* Handler invocations.  A call holds the arguments, the position pc (the  *)
(* next awaited storage call), the local variables and, once pc = "done",  *)
(* the returned result (success, error, eloUpdated, newMatchId).  fault is  *)
(* the position at which the awaited storage call rejects ("none": the     *)
(* store answers every call), and "thrown" once it has done so.            *)
(***************************************************************************)
NoCall ==
  [op |-> "none", pc |-> "done",
   userId |-> NULL, matchId |-> 0, messageId |-> 0, matchType |-> "player",
   content |-> "", rating |-> "", forfeitUserId |-> NULL,
   userElo |-> 0, eloRange |-> 0, match |-> <<>>,
   opponent |-> NULL, judge |-> NULL, winnerId |-> NULL,
   p1 |-> NULL, p2 |-> NULL, e1 |-> 0, n1 |-> 0, n2 |-> 0, agreed |-> FALSE,
   success |-> FALSE, error |-> "", eloUpdated |-> FALSE, newMatchId |-> 0,
   fault |-> "none"]

sendMessageCall(matchId, userId, content) ==
  [NoCall EXCEPT !.op = "sendMessage", !.pc = "sm_getMatch",
                 !.matchId = matchId, !.userId = userId, !.content = content]

endMatchCall(matchId, forfeitUserId) ==
  [NoCall EXCEPT !.op = "endMatch", !.pc = "em_getMatchWithPlayers",
                 !.matchId = matchId, !.forfeitUserId = forfeitUserId]

joinQueueCall(userId, matchType) ==
  [NoCall EXCEPT !.op = "joinQueue", !.pc = "jq_getUser",
                 !.userId = userId, !.matchType = matchType]

leaveQueueCall(userId) ==
  [NoCall EXCEPT !.op = "leaveQueue", !.pc = "lq_leaveQueue", !.userId = userId]

pollCall(userId) ==
  [NoCall EXCEPT !.op = "poll", !.pc = "pl_getUser", !.userId = userId]

findMatchCall(userId, userElo) ==
  [NoCall EXCEPT !.op = "findMatch", !.pc = "fm_getUserInQueue",
                 !.userId = userId, !.userElo = userElo]

\* GameEngine.updateEloRatings(player1Id, player2Id, winnerId), entered at
\* its first awaited call; winnerId is a player or NULL (line 83)
updateEloRatingsCall(player1Id, player2Id, winnerId) ==
  [NoCall EXCEPT !.op = "updateEloRatings", !.pc = "ue_getUser1",
                 !.p1 = player1Id, !.p2 = player2Id, !.winnerId = winnerId]

processJudgeRatingCall(messageId, judgeId, rating) ==
  [NoCall EXCEPT !.op = "processJudgeRating", !.pc = "pr_createJudgeRating",
                 !.messageId = messageId, !.userId = judgeId, !.rating = rating]

\* the handler returns: the locals are dropped, the arguments and the result stay
Return(c, success, error) ==
  [NoCall EXCEPT !.op = c.op, !.userId = c.userId, !.matchId = c.matchId,
                 !.messageId = c.messageId, !.matchType = c.matchType,
                 !.content = c.content, !.rating = c.rating,
                 !.forfeitUserId = c.forfeitUserId,
                 !.success = success, !.error = error,
                 !.eloUpdated = c.eloUpdated, !.newMatchId = c.newMatchId,
                 !.fault = c.fault]

\* endMatch returns; inside sendMessage its result is discarded (line 27-28)
EndMatchReturn(c, success) ==
  IF c.op = "sendMessage" THEN Return(c, FALSE, "Match time expired")
  ELSE Return(c, success, "")

\* findMatch returns; joinQueue answers success either way (lines 33-40)
FindMatchReturn(c, success) ==
  IF c.op = "joinQueue"
  THEN Return([c EXCEPT !.newMatchId = IF success THEN @ ELSE 0], TRUE, "")
  ELSE Return([c EXCEPT !.newMatchId = IF success THEN @ ELSE 0], success, "")

One(c, d) == {[call |-> c, db |-> d]}

(***************************************************************************)
(* GameEngine.sendMessage                                                  *)
(***************************************************************************)
nextUserIdOfSticky(m, userId) == m.player1Id

\* a turn handed to the judge of the match
nextUserIdOfJudge(m, userId) == m.judge1Id

nextUserIdOf(m, userId) == IF m.player1Id = userId THEN m.player2Id ELSE m.player1Id

\* a plausible slip: only a completed match is turned away
sendNotActiveForfeitOpen(m) == Len(m) = 0 \/ m[1].status = "completed"

\* !match || match.status !== 'active'
sendNotActive(m) == Len(m) = 0 \/ m[1].status # "active"

SendMessageStep(c, d, t) ==
  CASE c.pc = "sm_getMatch" ->
         LET m == getMatch(d, c.matchId) IN
         IF sendNotActive(m)
         THEN One(Return(c, FALSE, "Match not active"), d)
         ELSE IF m[1].currentTurn # c.userId
         THEN One(Return(c, FALSE, "Not your turn"), d)
         ELSE IF isMatchExpired(m[1], t)
         THEN One([c EXCEPT !.pc = "em_getMatchWithPlayers"], d)
         ELSE One([c EXCEPT !.match = m, !.pc = "sm_createMessage"], d)
    [] c.pc = "sm_createMessage" ->
         LET w == createMessage(d, c.matchId, c.userId, trim(c.content)) IN
         IF ~w.ok THEN One(Return(c, FALSE, "Failed to send message"), d)
         ELSE IF nextUserIdOf(c.match[1], c.userId) # NULL
         THEN One([c EXCEPT !.messageId = Len(w.db.messages),
                            !.pc = "sm_switchTurn"], w.db)
         ELSE One(Return([c EXCEPT !.messageId = Len(w.db.messages)], TRUE, ""), w.db)
    [] c.pc = "sm_switchTurn" ->
         One(Return(c, TRUE, ""),
             switchTurn(d, c.matchId, nextUserIdOf(c.match[1], c.userId)))

(***************************************************************************)
(* GameEngine.endMatch and GameEngine.updateEloRatings                     *)
(***************************************************************************)
\* where endMatch goes on once updateEloRatings has returned
AfterElo(c) ==
  IF c.forfeitUserId # NULL
  THEN [c EXCEPT !.pc = "em_updateMatchStatus"]
  ELSE EndMatchReturn(c, TRUE)

\* !match || match.status !== 'active'
endNotActive(m) == Len(m) = 0 \/ m[1].status # "active"

forfeitWinnerOf(m, forfeitUserId) ==
  IF forfeitUserId = m.player1Id THEN m.player2Id ELSE m.player1Id

EndMatchStep(c, d, t) ==
  CASE c.pc = "em_getMatchWithPlayers" ->
         LET m == getMatchWithPlayers(d, c.matchId) IN
         IF endNotActive(m)
         THEN One(EndMatchReturn(c, FALSE), d)
         ELSE IF c.forfeitUserId # NULL
         THEN IF forfeitWinnerOf(m[1], c.forfeitUserId) # NULL
              THEN One([c EXCEPT !.match = m,
                                 !.winnerId = forfeitWinnerOf(m[1], c.forfeitUserId),
                                 !.pc = "em_setMatchWinner"], d)
              ELSE One([c EXCEPT !.match = m, !.pc = "em_updateMatchStatus"], d)
         ELSE One([c EXCEPT !.match = m, !.winnerId = NULL,
                            !.pc = "em_setMatchWinner"], d)
    [] c.pc = "em_setMatchWinner" ->
         LET w == IF c.forfeitUserId # NULL
                  THEN setMatchWinner(d, c.matchId, c.winnerId, 0, 10, t)
                  ELSE setMatchWinner(d, c.matchId, EmptyWinner, 5, 5, t)
             m == c.match[1]
         IN
         IF ~w.ok THEN One(EndMatchReturn(c, FALSE), d)
         ELSE IF m.player2Id = NULL THEN One(AfterElo(c), w.db)
         ELSE One([c EXCEPT !.p1 = m.player1Id, !.p2 = m.player2Id,
                            !.pc = "ue_getUser1"], w.db)
    [] c.pc = "ue_getUser1" ->
         IF Len(getUser(d, c.p1)) = 0 THEN One([c EXCEPT !.pc = "ue_getUser2", !.e1 = -1], d)
         ELSE One([c EXCEPT !.e1 = getUser(d, c.p1)[1].elo, !.pc = "ue_getUser2"], d)
    [] c.pc = "ue_getUser2" ->
         IF c.e1 = -1 \/ Len(getUser(d, c.p2)) = 0 THEN One(AfterElo(c), d)
         ELSE LET e2 == getUser(d, c.p2)[1].elo IN
              One([c EXCEPT
                     !.n1 = newElo1Of(c.e1, e2, actualScore1x2(c.p1, c.p2, c.winnerId)),
                     !.n2 = newElo2Of(c.e1, e2, actualScore2x2(c.p1, c.p2, c.winnerId)),
                     !.pc = "ue_updateUserElo1"], d)
    [] c.pc = "ue_updateUserElo1" ->
         One([c EXCEPT !.pc = "ue_updateUserElo2"], updateUserElo(d, c.p1, c.n1))
    [] c.pc = "ue_updateUserElo2" ->
         One([c EXCEPT !.pc = "ue_updateUserStats1"], updateUserElo(d, c.p2, c.n2))
    [] c.pc = "ue_updateUserStats1" ->
         One([c EXCEPT !.pc = "ue_updateUserStats2"],
             updateUserStats(d, c.p1, c.winnerId = c.p1))
    [] c.pc = "ue_updateUserStats2" ->
         One(AfterElo(c), updateUserStats(d, c.p2, c.winnerId = c.p2))
    [] c.pc = "em_updateMatchStatus" ->
         One(EndMatchReturn(c, TRUE), updateMatchStatus(d, c.matchId, "forfeit", t))

(***************************************************************************)
(* MatchmakingService.findMatch, the poll route, joinQueue and leaveQueue  *)
(***************************************************************************)
\* a self test that never fires
isSelfNever(opponent, userId) == FALSE

\* opponent.userId === userId
isSelf(opponent, userId) == opponent.userId = userId

FindMatchStep(c, d, t) ==
  CASE c.pc = "pl_getUser" ->
         IF Len(getUser(d, c.userId)) = 0
         THEN One(Return(c, FALSE, "User not found"), d)
         ELSE One([c EXCEPT !.userElo = getUser(d, c.userId)[1].elo,
                            !.pc = "fm_getUserInQueue"], d)
    [] c.pc = "fm_getUserInQueue" ->
         LET q == getUserInQueue(d, c.userId) IN
         IF q = {} THEN One(FindMatchReturn(c, FALSE), d)
         ELSE {[call |-> [c EXCEPT !.eloRange = eloRangeOf(t - e.joinedAt),
                                   !.pc = "fm_findMatchInQueue"],
                db |-> d] : e \in q}
    [] c.pc = "fm_findMatchInQueue" ->
         LET found == findMatchInQueue(d, c.userElo, c.eloRange, t) IN
         IF found = {} THEN One(FindMatchReturn(c, FALSE), d)
         ELSE {[call |-> IF isSelf(e, c.userId)
                         THEN FindMatchReturn(c, FALSE)
                         ELSE [c EXCEPT !.opponent = e.userId,
                                        !.pc = "fm_findJudgeInQueue"],
                db |-> d] : e \in found}
    [] c.pc = "fm_findJudgeInQueue" ->
         LET found == findJudgeInQueue(d, NULL) IN
         IF found = {} THEN One(FindMatchReturn(c, FALSE), d)
         ELSE {[call |-> [c EXCEPT !.judge = e.userId, !.pc = "fm_createMatch"],
                db |-> d] : e \in found}
    [] c.pc = "fm_createMatch" ->
         LET w == createMatch(d, c.userId, c.opponent, c.judge, NULL, t) IN
         IF ~w.ok THEN One(FindMatchReturn(c, FALSE), d)
         ELSE One([c EXCEPT !.newMatchId = Len(w.db.matches),
                            !.pc = "fm_startMatch"], w.db)
    [] c.pc = "fm_startMatch" ->
         LET w == startMatch(d, c.newMatchId, c.opponent, c.judge, NULL, t) IN
         IF ~w.ok THEN One(FindMatchReturn(c, FALSE), d)
         ELSE One([c EXCEPT !.pc = "fm_leaveQueue1"], w.db)
    [] c.pc = "fm_leaveQueue1" ->
         One([c EXCEPT !.pc = "fm_leaveQueue2"], leaveQueueRow(d, c.userId))
    [] c.pc = "fm_leaveQueue2" ->
         One([c EXCEPT !.pc = "fm_leaveQueue3"], leaveQueueRow(d, c.opponent))
    [] c.pc = "fm_leaveQueue3" ->
         One(FindMatchReturn(c, TRUE), leaveQueueRow(d, c.judge))

JoinQueueStep(c, d, t) ==
  CASE c.pc = "jq_getUser" ->
         IF Len(getUser(d, c.userId)) = 0 THEN One(Return(c, FALSE, ""), d)
         ELSE One([c EXCEPT !.userElo = getUser(d, c.userId)[1].elo,
                            !.pc = "jq_getUserActiveMatch"], d)
    [] c.pc = "jq_getUserActiveMatch" ->
         IF getUserActiveMatch(d, c.userId) # {} THEN One(Return(c, FALSE, ""), d)
         ELSE One([c EXCEPT !.pc = "jq_joinQueue"], d)
    [] c.pc = "jq_joinQueue" ->
         LET w == joinQueueRow(d, c.userId, c.userElo, c.matchType, t) IN
         IF ~w.ok THEN One(Return(c, FALSE, ""), d)
         ELSE IF c.matchType = "player"
         THEN One([c EXCEPT !.pc = "fm_getUserInQueue"], w.db)
         ELSE One(Return(c, TRUE, ""), w.db)

LeaveQueueStep(c, d, t) ==
  One(Return(c, TRUE, ""), leaveQueueRow(d, c.userId))

(***************************************************************************)
(* GameEngine.processJudgeRating and GameEngine.updateJudgeElos            *)
(***************************************************************************)
agreedElo(judgeElo) == Max(JUDGE_ELO_FLOOR, judgeElo + AGREEMENT_BONUS)

\* the penalty without the floor
disagreedEloUnfloored(judgeElo) == judgeElo - DISAGREEMENT_PENALTY

disagreedElo(judgeElo) == Max(JUDGE_ELO_FLOOR, judgeElo - DISAGREEMENT_PENALTY)

\* a consensus test that also fires on a third and later rating
bothRatedOrMore(allRatings) == Len(allRatings) >= 2

\* allRatings.length === 2
bothRated(allRatings) == Len(allRatings) = 2

ProcessJudgeRatingStep(c, d, t) ==
  CASE c.pc = "pr_createJudgeRating" ->
         LET w == createJudgeRating(d, c.messageId, c.userId, c.rating) IN
         IF ~w.ok THEN One(Return(c, FALSE, ""), d)
         ELSE One([c EXCEPT !.pc = "pr_getMessageJudgeRatings"], w.db)
    [] c.pc = "pr_getMessageJudgeRatings" ->
         LET allRatings == getMessageJudgeRatings(d, c.messageId) IN
         IF bothRated(allRatings)
         THEN One([c EXCEPT !.p1 = allRatings[1].judgeId,
                            !.p2 = allRatings[2].judgeId,
                            !.agreed = allRatings[1].rating = allRatings[2].rating,
                            !.eloUpdated = TRUE,
                            !.pc = "uj_getUser1"], d)
         ELSE One(Return(c, TRUE, ""), d)
    [] c.pc = "uj_getUser1" ->
         IF Len(getUser(d, c.p1)) = 0 THEN One([c EXCEPT !.pc = "uj_getUser2", !.e1 = -1], d)
         ELSE One([c EXCEPT !.e1 = getUser(d, c.p1)[1].judgeElo, !.pc = "uj_getUser2"], d)
    [] c.pc = "uj_getUser2" ->
         IF c.e1 = -1 \/ Len(getUser(d, c.p2)) = 0 THEN One(Return(c, TRUE, ""), d)
         ELSE LET e2 == getUser(d, c.p2)[1].judgeElo IN
              One([c EXCEPT
                     !.n1 = IF c.agreed THEN agreedElo(c.e1) ELSE disagreedElo(c.e1),
                     !.n2 = IF c.agreed THEN agreedElo(e2) ELSE disagreedElo(e2),
                     !.pc = "uj_updateJudgeElo1"], d)
    [] c.pc = "uj_updateJudgeElo1" ->
         One([c EXCEPT !.pc = "uj_updateJudgeElo2"], updateJudgeElo(d, c.p1, c.n1))
    [] c.pc = "uj_updateJudgeElo2" ->
         One([c EXCEPT !.pc = "uj_updateJudgeStats1"], updateJudgeElo(d, c.p2, c.n2))
    [] c.pc = "uj_updateJudgeStats1" ->
         One([c EXCEPT !.pc = "uj_updateJudgeStats2"], updateJudgeStats(d, c.p1, c.agreed))
    [] c.pc = "uj_updateJudgeStats2" ->
         One(Return(c, TRUE, ""), updateJudgeStats(d, c.p2, c.agreed))

(***************************************************************************)
(* One awaited step of a call, and a call run to its return                *)
(***************************************************************************)
SendPcs == {"sm_getMatch", "sm_createMessage", "sm_switchTurn"}
EndPcs ==
  {"em_getMatchWithPlayers", "em_setMatchWinner", "em_updateMatchStatus",
   "ue_getUser1", "ue_getUser2", "ue_updateUserElo1", "ue_updateUserElo2",
   "ue_updateUserStats1", "ue_updateUserStats2"}
FindPcs ==
  {"pl_getUser", "fm_getUserInQueue", "fm_findMatchInQueue", "fm_findJudgeInQueue",
   "fm_createMatch", "fm_startMatch", "fm_leaveQueue1", "fm_leaveQueue2",
   "fm_leaveQueue3"}
JoinPcs == {"jq_getUser", "jq_getUserActiveMatch", "jq_joinQueue"}
RatePcs ==
  {"pr_createJudgeRating", "pr_getMessageJudgeRatings", "uj_getUser1", "uj_getUser2",
   "uj_updateJudgeElo1", "uj_updateJudgeElo2", "uj_updateJudgeStats1",
   "uj_updateJudgeStats2"}

\* the catch block that receives a rejection of the storage call awaited at
\* c.pc: updateEloRatings and updateJudgeElos swallow theirs and the caller
\* goes on; endMatch, findMatch, joinQueue, sendMessage and
\* processJudgeRating return success = false; leaveQueue returns
Caught(c) ==
  CASE c.pc \in {"ue_getUser1", "ue_getUser2", "ue_updateUserElo1",
                 "ue_updateUserElo2", "ue_updateUserStats1",
                 "ue_updateUserStats2"} -> AfterElo(c)
    [] c.pc \in {"uj_getUser1", "uj_getUser2", "uj_updateJudgeElo1",
                 "uj_updateJudgeElo2", "uj_updateJudgeStats1",
                 "uj_updateJudgeStats2"} -> Return(c, TRUE, "")
    [] c.pc \in EndPcs -> EndMatchReturn(c, FALSE)
    [] c.pc \in FindPcs \ {"pl_getUser"} -> FindMatchReturn(c, FALSE)
    [] c.pc \in SendPcs -> Return(c, FALSE, "Failed to send message")
    [] c.pc = "lq_leaveQueue" -> Return(c, TRUE, "")
    [] OTHER -> Return(c, FALSE, "")

Step(c, d, t) ==
  IF c.pc = c.fault THEN One(Caught([c EXCEPT !.fault = "thrown"]), d)
  ELSE
  CASE c.pc \in SendPcs -> SendMessageStep(c, d, t)
    [] c.pc \in EndPcs -> EndMatchStep(c, d, t)
    [] c.pc \in FindPcs -> FindMatchStep(c, d, t)
    [] c.pc \in JoinPcs -> JoinQueueStep(c, d, t)
    [] c.pc = "lq_leaveQueue" -> LeaveQueueStep(c, d, t)
    [] c.pc \in RatePcs -> ProcessJudgeRatingStep(c, d, t)

RECURSIVE RunAll(_, _, _)
RunAll(c, d, t) ==
  IF c.pc = "done" THEN One(c, d)
  ELSE UNION {RunAll(o.call, o.db, t) : o \in Step(c, d, t)}

WithinBounds(d) ==
  /\ Len(d.matches) <= MaxMatches
  /\ Len(d.messages) <= MaxMessages
  /\ Len(d.ratings) <= MaxRatings

(***************************************************************************)
(* Sequential specifications: every request is served to its response      *)
(* before the next one starts.  calls[1] is the last served call.          *)
(*   Spec      matchmaking from the empty store: join, leave, poll, and    *)
(*             the two ways a match ends (which free its participants)     *)
(*   SpecMatch the life of a match formed by findMatch                     *)
(***************************************************************************)
Registered == {"u1", "u2", "u3"}
Contents == {" hi ", "  "}
RatingInputs == {"good", "blunder"}
MatchIds == 1..MaxMatches
MessageIds == 1..MaxMessages

\* clock steps: just over the one-second grace window of findMatchInQueue,
\* and exactly the match duration
TickGrace == GRACE_MS + 1
TickDuration == MATCH_DURATION

\* the number of Tick steps that led to the clock value t
NumTicks(t) == (t % TickDuration) \div TickGrace + t \div TickDuration

Init ==
  /\ db = EmptyDb(Registered)
  /\ now = 0
  /\ calls = <<NoCall>>

\* what the sequential specifications keep of a served call: its result
Result(c) ==
  [NoCall EXCEPT !.op = c.op, !.success = c.success, !.error = c.error,
                 !.eloUpdated = c.eloUpdated, !.newMatchId = c.newMatchId,
                 !.fault = IF c.fault = "thrown" THEN "thrown" ELSE "none"]

\* the request whose run to completion is o has been served
Served(o) ==
  /\ WithinBounds(o.db)
  /\ db' = o.db
  /\ calls' = <<Result(o.call)>>
  /\ now' = now

JoinQueue(u, mt) ==
  \E o \in RunAll(joinQueueCall(u, mt), db, now) : Served(o)

LeaveQueue(u) ==
  \E o \in RunAll(leaveQueueCall(u), db, now) : Served(o)

Poll(u) ==
  \E o \in RunAll(pollCall(u), db, now) : Served(o)

SendMessage(m, u, content) ==
  \E o \in RunAll(sendMessageCall(m, u, content), db, now) : Served(o)

EndMatch(m) ==
  \E o \in RunAll(endMatchCall(m, NULL), db, now) : Served(o)

Forfeit(m, u) ==
  \E o \in RunAll(endMatchCall(m, u), db, now) : Served(o)

ProcessJudgeRating(msg, j, r) ==
  \E o \in RunAll(processJudgeRatingCall(msg, j, r), db, now) : Served(o)

TickQueue ==
  /\ NumTicks(now) < MaxTicks
  /\ now' = now + TickGrace
  /\ UNCHANGED <<db, calls>>

\* the users that send requests: the registered (authenticated) ones
Callers == Registered

Next ==
  \/ \E u \in Users, mt \in matchTypeEnum : JoinQueue(u, mt)
  \/ \E u \in Callers : LeaveQueue(u)
  \/ \E u \in Callers : Poll(u)
  \/ \E m \in MatchIds : EndMatch(m)
  \/ \E m \in MatchIds, u \in Callers : Forfeit(m, u)
  \/ TickQueue

Spec == Init /\ [][Next]_vars

\* SpecSeq: the same, with the messages of the match
NextSeq ==
  \/ Next
  \/ \E m \in MatchIds, u \in Callers : SendMessage(m, u, " hi ")

SpecSeq == Init /\ [][NextSeq]_vars

(***************************************************************************)
(* SpecMatch: the life of one match.  It starts in the state findMatch     *)
(* leaves when u3 has joined as judge and u2 as player at time 0 and u1    *)
(* joins as player just after the grace window: the match (u1, u2, u3).    *)
(***************************************************************************)
AfterRun(c, d, t) == (CHOOSE o \in RunAll(c, d, t) : TRUE).db

QueuedDb ==
  AfterRun(joinQueueCall("u2", "player"),
           AfterRun(joinQueueCall("u3", "judge"), EmptyDb(Registered), 0), 0)

FormedDb == AfterRun(joinQueueCall("u1", "player"), QueuedDb, TickGrace)

InitMatch ==
  /\ db = FormedDb
  /\ now = TickGrace
  /\ calls = <<NoCall>>

TickSecond ==
  /\ NumTicks(now) < 1 + MaxMatchTicks
  /\ now' = now + TickGrace
  /\ UNCHANGED <<db, calls>>

TickMatchDuration ==
  /\ NumTicks(now) < 1 + MaxMatchTicks
  /\ now' = now + TickDuration
  /\ UNCHANGED <<db, calls>>

NextMatch ==
  \/ \E m \in MatchIds, u \in Callers, content \in Contents : SendMessage(m, u, content)
  \/ \E m \in MatchIds : EndMatch(m)
  \/ \E m \in MatchIds, u \in Callers : Forfeit(m, u)
  \/ TickSecond
  \/ TickMatchDuration

SpecMatch == InitMatch /\ [][NextMatch]_vars

(***************************************************************************)
(* SpecRate: judge ratings of the first message of that match, served one  *)
(* after the other.                                                        *)
(***************************************************************************)
MessageDb == AfterRun(sendMessageCall(1, "u1", " hi "), FormedDb, TickGrace)

InitRate ==
  /\ db = MessageDb
  /\ now = TickGrace
  /\ calls = <<NoCall>>

NextRate ==
  \/ \E msg \in MessageIds, j \in Callers, r \in RatingInputs :
       ProcessJudgeRating(msg, j, r)
  \/ \E m \in MatchIds : EndMatch(m)
  \/ \E m \in MatchIds, u \in Callers : Forfeit(m, u)

SpecRate == InitRate /\ [][NextRate]_vars

(***************************************************************************)
(* Interleaved specifications: NumCalls requests are in flight at once and *)
(* each step serves one awaited storage call of one of them.               *)
(*   SpecSendRace  sendMessage calls on the formed match                   *)
(*   SpecFindRace  polls by the queued users                               *)
(*   SpecRateRace  processJudgeRating calls on the first message           *)
(***************************************************************************)
IdleCall == [NoCall EXCEPT !.pc = "idle"]

IdleCalls == [i \in 1..NumCalls |-> IdleCall]

\* request c arrives in slot i
Started(i, c) ==
  /\ calls' = [calls EXCEPT ![i] = c]
  /\ UNCHANGED <<db, now>>

\* the awaited storage call of slot i has completed with outcome o
Stepped(i, o) ==
  /\ db' = o.db
  /\ calls' = [calls EXCEPT ![i] = o.call]
  /\ now' = now

AllDone == \A i \in DOMAIN calls : calls[i].pc = "done"

\* sendMessage
StartSendMessage(i, u, content) ==
  /\ calls[i].pc = "idle"
  /\ Started(i, sendMessageCall(1, u, content))

SendGetMatch(i) ==
  /\ calls[i].pc \in {"sm_getMatch"}
  /\ \E o \in Step(calls[i], db, now) : Stepped(i, o)

SendCreateMessage(i) ==
  /\ calls[i].pc \in {"sm_createMessage"}
  /\ \E o \in Step(calls[i], db, now) : Stepped(i, o)

SendSwitchTurn(i) ==
  /\ calls[i].pc \in {"sm_switchTurn"}
  /\ \E o \in Step(calls[i], db, now) : Stepped(i, o)


InitSendRace ==
  /\ db = FormedDb
  /\ now = TickGrace
  /\ calls = IdleCalls

NextSendRace ==
  \E i \in 1..NumCalls :
    \/ \E u \in Callers, content \in Contents : StartSendMessage(i, u, content)
    \/ SendGetMatch(i)
    \/ SendCreateMessage(i)
    \/ SendSwitchTurn(i)

SpecSendRace == InitSendRace /\ [][NextSendRace]_vars

\* endMatch (the end and forfeit routes) racing endMatch and sendMessage on
\* the formed match
StartEndMatch(i, u) ==
  /\ calls[i].pc = "idle"
  /\ Started(i, endMatchCall(1, u))

\* one awaited storage call of endMatch or of its updateEloRatings
EndMatchAwait(i) ==
  /\ calls[i].pc \in EndPcs
  /\ \E o \in Step(calls[i], db, now) : Stepped(i, o)

NextEndRace ==
  \E i \in 1..NumCalls :
    \/ \E u \in Callers \cup {NULL} : StartEndMatch(i, u)
    \/ EndMatchAwait(i)
    \/ \E u \in Callers : StartSendMessage(i, u, " hi ")
    \/ SendGetMatch(i)
    \/ SendCreateMessage(i)
    \/ SendSwitchTurn(i)

SpecEndRace == InitSendRace /\ [][NextEndRace]_vars

\* the poll route and findMatch
StartPoll(i, u) ==
  /\ calls[i].pc = "idle"
  /\ Started(i, pollCall(u))

PollGetUser(i) ==
  /\ calls[i].pc \in {"pl_getUser"}
  /\ \E o \in Step(calls[i], db, now) : Stepped(i, o)

FindGetUserInQueue(i) ==
  /\ calls[i].pc \in {"fm_getUserInQueue"}
  /\ \E o \in Step(calls[i], db, now) : Stepped(i, o)

FindMatchInQueue(i) ==
  /\ calls[i].pc \in {"fm_findMatchInQueue"}
  /\ \E o \in Step(calls[i], db, now) : Stepped(i, o)

FindJudgeInQueue(i) ==
  /\ calls[i].pc \in {"fm_findJudgeInQueue"}
  /\ \E o \in Step(calls[i], db, now) : Stepped(i, o)

FindCreateMatch(i) ==
  /\ calls[i].pc \in {"fm_createMatch"}
  /\ \E o \in Step(calls[i], db, now) : Stepped(i, o)

FindStartMatch(i) ==
  /\ calls[i].pc \in {"fm_startMatch"}
  /\ \E o \in Step(calls[i], db, now) : Stepped(i, o)

FindLeaveQueue(i) ==
  /\ calls[i].pc \in {"fm_leaveQueue1", "fm_leaveQueue2", "fm_leaveQueue3"}
  /\ \E o \in Step(calls[i], db, now) : Stepped(i, o)


\* u1 and u2 queued as players and u3 as judge at time 0, none matched yet
QueuedPlayersDb == AfterRun(joinQueueCall("u1", "player"), QueuedDb, 0)

InitFindRace ==
  /\ db = QueuedPlayersDb
  /\ now = TickGrace
  /\ calls = IdleCalls

NextFindRace ==
  \E i \in 1..NumCalls :
    \/ \E u \in Callers : StartPoll(i, u)
    \/ PollGetUser(i)
    \/ FindGetUserInQueue(i)
    \/ FindMatchInQueue(i)
    \/ FindJudgeInQueue(i)
    \/ FindCreateMatch(i)
    \/ FindStartMatch(i)
    \/ FindLeaveQueue(i)

SpecFindRace == InitFindRace /\ [][NextFindRace]_vars

\* processJudgeRating
StartProcessJudgeRating(i, j, r) ==
  /\ calls[i].pc = "idle"
  /\ Started(i, processJudgeRatingCall(1, j, r))

RateCreateJudgeRating(i) ==
  /\ calls[i].pc \in {"pr_createJudgeRating"}
  /\ \E o \in Step(calls[i], db, now) : Stepped(i, o)

RateGetMessageJudgeRatings(i) ==
  /\ calls[i].pc \in {"pr_getMessageJudgeRatings"}
  /\ \E o \in Step(calls[i], db, now) : Stepped(i, o)

RateGetUser(i) ==
  /\ calls[i].pc \in {"uj_getUser1", "uj_getUser2"}
  /\ \E o \in Step(calls[i], db, now) : Stepped(i, o)

RateUpdateJudgeElo(i) ==
  /\ calls[i].pc \in {"uj_updateJudgeElo1", "uj_updateJudgeElo2"}
  /\ \E o \in Step(calls[i], db, now) : Stepped(i, o)

RateUpdateJudgeStats(i) ==
  /\ calls[i].pc \in {"uj_updateJudgeStats1", "uj_updateJudgeStats2"}
  /\ \E o \in Step(calls[i], db, now) : Stepped(i, o)


InitRateRace ==
  /\ db = MessageDb
  /\ now = TickGrace
  /\ calls = IdleCalls

NextRateRace ==
  \E i \in 1..NumCalls :
    \/ \E j \in Callers, r \in RatingInputs : StartProcessJudgeRating(i, j, r)
    \/ RateCreateJudgeRating(i)
    \/ RateGetMessageJudgeRatings(i)
    \/ RateGetUser(i)
    \/ RateUpdateJudgeElo(i)
    \/ RateUpdateJudgeStats(i)

SpecRateRace == InitRateRace /\ [][NextRateRace]_vars

(***************************************************************************)
(* SpecQueue: matchmaking among four registered users, so that the queue   *)
(* can hold two players and two judges.  The clock moves by one            *)
(* millisecond (joins at different instants inside the grace window) and   *)
(* by just over the grace window.                                          *)
(***************************************************************************)
TickInstant ==
  /\ now % TickGrace < MaxInstants
  /\ now' = now + 1
  /\ UNCHANGED <<db, calls>>

TickWait ==
  /\ now \div TickGrace < MaxTicks
  /\ now' = now + TickGrace
  /\ UNCHANGED <<db, calls>>

InitQueue ==
  /\ db = EmptyDb(Users)
  /\ now = 0
  /\ calls = <<NoCall>>

NextQueue ==
  \/ \E u \in Users, mt \in matchTypeEnum : JoinQueue(u, mt)
  \/ \E u \in Users : Poll(u)
  \/ TickInstant
  \/ TickWait

SpecQueue == InitQueue /\ [][NextQueue]_vars

(***************************************************************************)
(* SpecFault: one service operation, served from a store in which the      *)
(* queue is filled, the match is formed, a message is sent or a rating is  *)
(* given, while the store may reject one awaited call of the request.      *)
(***************************************************************************)
RatedDb == AfterRun(processJudgeRatingCall(1, "u3", "good"), MessageDb, TickGrace)

\* the request c is served while the storage call awaited at f rejects
Faulty(c, f) ==
  /\ calls[1].op = "none"
  /\ \E o \in RunAll([c EXCEPT !.fault = f], db, now) : Served(o)

InitFault ==
  /\ db \in {QueuedPlayersDb, FormedDb, MessageDb, RatedDb}
  /\ now \in {TickGrace, TickGrace + TickDuration + TickGrace}
  /\ calls = <<NoCall>>

NextFault ==
  \/ \E u \in Callers, mt \in matchTypeEnum,
        f \in JoinPcs \cup FindPcs \cup {"none"} :
       Faulty(joinQueueCall(u, mt), f)
  \/ \E u \in Callers, f \in {"lq_leaveQueue", "none"} :
       Faulty(leaveQueueCall(u), f)
  \/ \E u \in Callers, f \in FindPcs \cup {"none"} :
       Faulty(findMatchCall(u, db.users[u].elo), f)
  \/ \E u \in Callers, f \in SendPcs \cup EndPcs \cup {"none"} :
       Faulty(sendMessageCall(1, u, " hi "), f)
  \/ \E u \in Callers \cup {NULL}, f \in EndPcs \cup {"none"} :
       Faulty(endMatchCall(1, u), f)
  \/ \E j \in Callers, r \in RatingInputs, f \in RatePcs \cup {"none"} :
       Faulty(processJudgeRatingCall(1, j, r), f)

SpecFault == InitFault /\ [][NextFault]_vars

(***************************************************************************)
(* SpecWindow: the search window of findMatch.  u1 (rated 1200) and u2     *)
(* (rated WindowElo) join as players, u3 and u4 as judges; joins are       *)
(* served whole, polls one awaited storage call at a time in a single      *)
(* request slot, so that the opponent, the judge and the radius a search   *)
(* uses can be observed.  The clock runs through WindowTimes.              *)
(***************************************************************************)
WindowTimes == <<0, 29999, 30000, 65000>>

\* a rating on the edge of the radius reached after one expansion
WindowElo == DEFAULT_ELO + ELO_RANGE_BASE + ELO_RANGE_EXPANSION

WindowRole(u) == IF u \in {"u1", "u2"} THEN "player" ELSE "judge"

WindowJoin(u) ==
  /\ calls[1].pc \in {"idle", "done"}
  /\ \E o \in RunAll(joinQueueCall(u, WindowRole(u)), db, now) :
       /\ db' = o.db
       /\ UNCHANGED <<now, calls>>

WindowTick ==
  /\ calls[1].pc \in {"idle", "done"}
  /\ \E k \in 1..(Len(WindowTimes) - 1) :
       /\ now = WindowTimes[k]
       /\ now' = WindowTimes[k + 1]
  /\ UNCHANGED <<db, calls>>

\* the response of the request in slot i has been sent
ResponseSent(i) ==
  /\ calls[i].pc = "done"
  /\ calls' = [calls EXCEPT ![i] = IdleCall]
  /\ UNCHANGED <<db, now>>

InitWindow ==
  /\ db = [EmptyDb(Users) EXCEPT !.users["u2"] = NewUser(WindowElo)]
  /\ now = 0
  /\ calls = <<IdleCall>>

NextWindow ==
  \/ \E u \in Users : WindowJoin(u)
  \/ WindowTick
  \/ \E u \in Users : StartPoll(1, u)
  \/ PollGetUser(1)
  \/ FindGetUserInQueue(1)
  \/ FindMatchInQueue(1)
  \/ FindJudgeInQueue(1)
  \/ FindCreateMatch(1)
  \/ FindStartMatch(1)
  \/ FindLeaveQueue(1)
  \/ ResponseSent(1)

SpecWindow == InitWindow /\ [][NextWindow]_vars

(***************************************************************************)
(* SpecElo: the player-ELO update.  The two players of the formed match    *)
(* have ratings drawn from EloInputs; the match is ended (forfeit, end)    *)
(* and updateEloRatings is applied to the two players with each winner     *)
(* argument its callers pass: player 1, player 2, or null for a draw.      *)
(***************************************************************************)
EloInputs == {e \in MinElo..MaxElo : e % EloGrid = 0}

Winners == {"u1", "u2", NULL}

UpdateEloRatings(p1, p2, w) ==
  /\ db.users[p1].totalMatches < MaxEloUpdates
  /\ \E o \in RunAll(updateEloRatingsCall(p1, p2, w), db, now) : Served(o)

InitElo ==
  /\ \E e1, e2 \in EloInputs :
       db = [FormedDb EXCEPT !.users["u1"] = NewUser(e1),
                             !.users["u2"] = NewUser(e2)]
  /\ now = TickGrace
  /\ calls = <<NoCall>>

NextElo ==
  \/ \E w \in Winners : UpdateEloRatings("u1", "u2", w)
  \/ \E m \in MatchIds : EndMatch(m)
  \/ \E m \in MatchIds, u \in Callers : Forfeit(m, u)

SpecElo == InitElo /\ [][NextElo]_vars

(***************************************************************************)
(* SpecLive: three queued users who stay queued and whose clients poll     *)
(* every two seconds (home.tsx): u3 as judge and u2 as player since time   *)
(* 0, u1 as player since 1 ms later, the players rated within the base     *)
(* radius of each other.  Every poll that can change the store is served   *)
(* eventually, and time passes beyond the grace window.                    *)
(***************************************************************************)
\* the store after the three joins, u1 rated e1 and u2 rated e2
WaitingDb(e1, e2) ==
  AfterRun(joinQueueCall("u1", "player"),
    AfterRun(joinQueueCall("u2", "player"),
      AfterRun(joinQueueCall("u3", "judge"),
               [EmptyDb(Registered) EXCEPT !.users["u1"] = NewUser(e1),
                                           !.users["u2"] = NewUser(e2)], 0), 0), 1)

InitLive ==
  /\ \E e1, e2 \in EloInputs :
       /\ e1 - e2 <= ELO_RANGE_BASE
       /\ e2 - e1 <= ELO_RANGE_BASE
       /\ db = WaitingDb(e1, e2)
  /\ now = 1
  /\ calls = <<NoCall>>

NextLive ==
  \/ \E u \in Callers : Poll(u)
  \/ TickWait

SpecLive ==
  /\ InitLive
  /\ [][NextLive]_vars
  /\ WF_vars(TickWait)
  /\ \A u \in Callers : WF_vars(Poll(u))

(***************************************************************************)
(* SpecStreak: a disagreement streak.  On the formed match the players     *)
(* send StreakLen + 1 messages; then u3 and u2 rate each of the first      *)
(* StreakLen of them "good" and "blunder", one call after the other; then  *)
(* NumCalls processJudgeRating calls on the last message run interleaved.  *)
(***************************************************************************)
AllIdle == \A i \in DOMAIN calls : calls[i].pc = "idle"

\* the player holding the turn sends the next message
StreakSend ==
  /\ AllIdle
  /\ Len(db.messages) <= StreakLen
  /\ \E o \in RunAll(sendMessageCall(1, db.matches[1].currentTurn, " hi "), db, now) :
       /\ db' = o.db
       /\ UNCHANGED <<now, calls>>

\* the next rating of the streak: u3 rates "good", then u2 rates "blunder"
StreakRate ==
  /\ AllIdle
  /\ Len(db.messages) = StreakLen + 1
  /\ Len(db.ratings) < 2 * StreakLen
  /\ \E o \in RunAll(processJudgeRatingCall(
                       Len(db.ratings) \div 2 + 1,
                       IF Len(db.ratings) % 2 = 0 THEN "u3" ELSE "u2",
                       IF Len(db.ratings) % 2 = 0 THEN "good" ELSE "blunder"),
                     db, now) :
       /\ db' = o.db
       /\ UNCHANGED <<now, calls>>

StartStreakRating(i, j, r) ==
  /\ calls[i].pc = "idle"
  /\ Len(db.ratings) >= 2 * StreakLen
  /\ Started(i, processJudgeRatingCall(StreakLen + 1, j, r))

InitStreak ==
  /\ db = FormedDb
  /\ now = TickGrace
  /\ calls = IdleCalls

NextStreak ==
  \/ StreakSend
  \/ StreakRate
  \/ \E i \in 1..NumCalls :
       \/ \E j \in Callers, r \in RatingInputs : StartStreakRating(i, j, r)
       \/ RateCreateJudgeRating(i)
       \/ RateGetMessageJudgeRatings(i)
       \/ RateGetUser(i)
       \/ RateUpdateJudgeElo(i)
       \/ RateUpdateJudgeStats(i)

SpecStreak == InitStreak /\ [][NextStreak]_vars

(***************************************************************************)
(* Properties                                                              *)
(***************************************************************************)
MessagesOf(m) == SelectSeq(db.messages, LAMBDA x : x.matchId = m)

OtherPlayer(mr, u) == IF u = mr.player1Id THEN mr.player2Id ELSE mr.player1Id

IsActive(d, m) == MatchExists(d, m) /\ d.matches[m].status = "active"

IsEnded(d, m) == MatchExists(d, m) /\ d.matches[m].status \in {"completed", "forfeit"}

ScoreOf(mr, u) == IF u = mr.player1Id THEN mr.player1Score ELSE mr.player2Score

InFlight == \E i \in DOMAIN calls : calls[i].pc \notin {"idle", "done"}

\* C1: under every interleaving of the storage steps of concurrent
\* sendMessage calls, the stored messages of a match never hold two
\* consecutive messages of the same sender.
C1_NoConsecutiveSameSender ==
  \A m \in MatchIds :
    \A k \in 1..(Len(MessagesOf(m)) - 1) :
      MessagesOf(m)[k].userId # MessagesOf(m)[k + 1].userId

\* the requests in flight or served come from pairwise different users
DistinctInitiators ==
  \A i, j \in DOMAIN calls :
    (i # j /\ calls[i].op # "none" /\ calls[j].op # "none")
      => calls[i].userId # calls[j].userId

\* C2: under every interleaving of concurrent findMatch calls by different
\* initiators a queue entry is consumed by at most one match: no user (each
\* holds a single queue entry and never re-joins here) is a participant of
\* two matches.
C2_EntryConsumedOnce ==
  DistinctInitiators =>
    \A u \in Callers :
      Cardinality({i \in DOMAIN db.matches : IsParticipant(db.matches[i], u)}) <= 1

\* C3: when rating submissions for one message race, then once all of them
\* have returned and the message has two ratings or more, the judge-ELO
\* update has been executed by exactly one of them.
C3_ConsensusFiresOnce ==
  (~InFlight /\ Len(getMessageJudgeRatings(db, 1)) >= 2)
    => Cardinality({i \in DOMAIN calls : calls[i].eloUpdated}) = 1

\* C4: an active match has both players and two distinct judges assigned
\* and startedAt set.
C4_ActiveMatchFullyAssigned ==
  \A i \in DOMAIN db.matches :
    db.matches[i].status = "active" =>
      /\ db.matches[i].player1Id # NULL
      /\ db.matches[i].player2Id # NULL
      /\ db.matches[i].judge1Id # NULL
      /\ db.matches[i].judge2Id # NULL
      /\ db.matches[i].judge1Id # db.matches[i].judge2Id
      /\ db.matches[i].startedAt # NoTime

\* C5: after any sequence of joinQueue, leaveQueue and findMatch calls (any
\* queued user may poll) no match has a player who is also one of its judges.
C5_NoPlayerJudgesOwnMatch ==
  \A i \in DOMAIN db.matches :
    {db.matches[i].player1Id, db.matches[i].player2Id}
      \cap ({db.matches[i].judge1Id, db.matches[i].judge2Id} \ {NULL}) = {}

\* C6: once a match is completed or forfeit, every sendMessage and every
\* endMatch (with or without forfeitUserId) on it returns success = false
\* and leaves the whole store (messages, match, users) unchanged.
C6_EndedMatchIsFrozen ==
  [][\A m \in MatchIds :
       (/\ IsEnded(db, m)
        /\ \/ \E u \in Callers, content \in Contents : SendMessage(m, u, content)
           \/ EndMatch(m)
           \/ \E u \in Callers : Forfeit(m, u))
         => (db' = db /\ ~calls'[1].success)]_vars

\* C6 witness: a sendMessage has been turned away on the forfeited match.
C6_Witness ==
  /\ IsEnded(db, 1)
  /\ calls[1].op = "sendMessage"
  /\ calls[1].error = "Match not active"

\* C7: a forfeit of an active match by one of its two players ends it with
\* the other player as winner, score 0 for the forfeiter and 10 for the
\* winner, status forfeit and endedAt set.
C7_ForfeitOutcome ==
  [][\A m \in MatchIds, u \in Callers :
       (/\ IsActive(db, m)
        /\ u \in {db.matches[m].player1Id, db.matches[m].player2Id}
        /\ Forfeit(m, u))
         => (/\ db'.matches[m].status = "forfeit"
             /\ db'.matches[m].endedAt # NoTime
             /\ db'.matches[m].winnerId = OtherPlayer(db.matches[m], u)
             /\ ScoreOf(db'.matches[m], u) = 0
             /\ ScoreOf(db'.matches[m], OtherPlayer(db.matches[m], u)) = 10)]_vars

\* C8: endMatch without forfeitUserId on an active match returns success
\* and leaves the match completed, endedAt set, no winner and both scores 5.
C8_DrawOutcome ==
  [][\A m \in MatchIds :
       (IsActive(db, m) /\ EndMatch(m))
         => (/\ calls'[1].success
             /\ db'.matches[m].status = "completed"
             /\ db'.matches[m].endedAt # NoTime
             /\ db'.matches[m].winnerId \in {NULL, EmptyWinner}
             /\ db'.matches[m].player1Score = 5
             /\ db'.matches[m].player2Score = 5)]_vars

\* C9: any operation that touches an active match whose time limit has
\* elapsed (a sendMessage by either player, an endMatch, a forfeit) leaves
\* the match completed.
C9_ExpiredMatchCompletes ==
  [][\A m \in MatchIds :
       (/\ IsActive(db, m)
        /\ isMatchExpired(db.matches[m], now)
        /\ \/ \E u \in {db.matches[m].player1Id, db.matches[m].player2Id},
                 content \in Contents : SendMessage(m, u, content)
           \/ EndMatch(m)
           \/ \E u \in Callers : Forfeit(m, u))
         => db'.matches[m].status = "completed"]_vars

\* C10: a sendMessage that succeeds appends exactly one message, sent by
\* the caller, and moves currentTurn from the caller to the other player;
\* the senders of a match's messages are player1, player2, player1, ...
C10_TurnAlternates ==
  /\ [][\A m \in MatchIds, u \in Callers, content \in Contents :
          (SendMessage(m, u, content) /\ calls'[1].success)
            => (/\ db'.messages =
                     Append(db.messages,
                            [matchId |-> m, userId |-> u, content |-> trim(content)])
                /\ db.matches[m].currentTurn = u
                /\ db'.matches[m].currentTurn = OtherPlayer(db.matches[m], u)
                /\ db'.matches[m].currentTurn # u)]_vars
  /\ [](\A m \in DOMAIN db.matches :
          \A k \in 1..Len(MessagesOf(m)) :
            MessagesOf(m)[k].userId =
              IF k % 2 = 1 THEN db.matches[m].player1Id ELSE db.matches[m].player2Id)

\* C10 witness: three messages accepted in a row, from u1, u2 and u1.
C10_Witness ==
  /\ Len(MessagesOf(1)) = 3
  /\ calls[1].op = "sendMessage"
  /\ calls[1].success
  /\ db.matches[1].currentTurn = db.matches[1].player2Id

\* the fields of a match row that a rejected sendMessage must leave alone
TurnAndOutcome(mr) ==
  <<mr.currentTurn, mr.status, mr.winnerId, mr.player1Score, mr.player2Score>>

\* C11: a sendMessage on a match that is not active, or by a user who does
\* not hold the turn, fails, stores no message and leaves currentTurn,
\* status, winnerId and the scores of the match unchanged; a sendMessage by
\* the turn holder after the time limit fails, stores no message and does
\* not move the turn.
C11_RejectedSendChangesNothing ==
  [][\A m \in MatchIds, u \in Callers, content \in Contents :
       (MatchExists(db, m) /\ SendMessage(m, u, content))
         => /\ (db.matches[m].status # "active" \/ db.matches[m].currentTurn # u)
                 => /\ ~calls'[1].success
                    /\ db'.messages = db.messages
                    /\ TurnAndOutcome(db'.matches[m]) = TurnAndOutcome(db.matches[m])
            /\ (/\ db.matches[m].status = "active"
                /\ db.matches[m].currentTurn = u
                /\ now - db.matches[m].startedAt > MATCH_DURATION)
                 => /\ ~calls'[1].success
                    /\ db'.messages = db.messages
                    /\ db'.matches[m].currentTurn = u]_vars

\* C11 witness: after an accepted message the time limit passes and the
\* player holding the turn is turned away.
C11_Witness ==
  /\ calls[1].op = "sendMessage"
  /\ calls[1].error = "Match time expired"
  /\ Len(MessagesOf(1)) = 1
  /\ db.matches[1].currentTurn = db.matches[1].player2Id

\* the ratings stored for message msg
RatingsOf(d, msg) == SelectSeq(d.ratings, LAMBDA x : x.messageId = msg)

\* C12: in a sequential run of processJudgeRating calls on one message the
\* judge-ELO update is performed by the call that brings the message from
\* one rating to two and by no other: the first rating and every rating
\* from the third on answer eloUpdated = false and change no user.
C12_ConsensusOnSecondRatingOnly ==
  [][\A msg \in DOMAIN db.messages, j \in Callers, r \in RatingInputs :
       (calls'[1].op = "processJudgeRating" /\ ProcessJudgeRating(msg, j, r))
         => /\ calls'[1].eloUpdated
                 <=> (calls'[1].success /\ Len(RatingsOf(db, msg)) = 1)
            /\ Len(RatingsOf(db, msg)) # 1 => db'.users = db.users
            /\ (calls'[1].success /\ Len(RatingsOf(db, msg)) = 1)
                 => db'.users # db.users]_vars

\* C12 witness: a third rating of the message has been accepted without an
\* ELO update, after the second one had changed the judges.
C12_Witness ==
  /\ Len(RatingsOf(db, 1)) = 3
  /\ calls[1].op = "processJudgeRating"
  /\ calls[1].success
  /\ ~calls[1].eloUpdated
  /\ \E u \in Callers : db.users[u].totalJudgeMatches > 0

\* C13: there is at most one stored rating per (message, judge) pair, so a
\* second submission by the same judge stores nothing and the judge-ELO
\* update only ever pairs two distinct judges.
C13_OneRatingPerJudge ==
  \A a, b \in DOMAIN db.ratings :
    (a # b /\ db.ratings[a].messageId = db.ratings[b].messageId)
      => db.ratings[a].judgeId # db.ratings[b].judgeId

\* C14: in every reachable state every user's judgeElo is at least 800,
\* however long the streak of disagreements and however the calls interleave.
C14_JudgeEloFloor ==
  \A u \in DOMAIN db.users : db.users[u].judgeElo >= 800

\* C14 witness: a judge already at 800 after StreakLen disagreements has
\* taken one more disagreement and is still at 800.
C14_Witness ==
  /\ ~InFlight
  /\ \E u \in DOMAIN db.users :
       /\ db.users[u].judgeDisagreements > (1200 - 800) \div 5
       /\ db.users[u].judgeElo = 800

\* C15: across endMatch and processJudgeRating operations no user's peakElo
\* or peakJudgeElo ever decreases: after each operation the peak is the
\* larger of the previous peak and the rating the operation left.
C15_PeaksNeverDecrease ==
  [][\A u \in DOMAIN db.users :
       /\ db'.users[u].peakElo >= db.users[u].peakElo
       /\ db'.users[u].peakJudgeElo >= db.users[u].peakJudgeElo
       /\ db'.users[u].peakElo =
            IF db'.users[u].elo > db.users[u].peakElo
            THEN db'.users[u].elo ELSE db.users[u].peakElo
       /\ db'.users[u].peakJudgeElo =
            IF db'.users[u].judgeElo > db.users[u].peakJudgeElo
            THEN db'.users[u].judgeElo ELSE db.users[u].peakJudgeElo]_vars

\* C15 witness: a forfeit has taken one player below their peak and raised
\* the other's peak, and a disagreement has taken a judge below their peak.
C15_Witness ==
  /\ \E u \in DOMAIN db.users : db.users[u].elo < db.users[u].peakElo
  /\ \E u \in DOMAIN db.users : db.users[u].peakElo > 1200
  /\ \E u \in DOMAIN db.users : db.users[u].judgeElo < db.users[u].peakJudgeElo

\* max(800, e), written out
Floored(e) == IF e > 800 THEN e ELSE 800

\* C16: when the second rating of a message comes from a judge other than
\* the first, both judges' judgeElo become max(800, judgeElo + 10) if the two
\* ratings are equal and max(800, judgeElo - 5) otherwise, each of the two
\* gets totalJudgeMatches + 1 and one of judgeAgreements (equal ratings) or
\* judgeDisagreements (different ratings) + 1, and no other user changes.
C16_ConsensusEffect ==
  [][\A msg \in MessageIds, j \in Callers, r \in RatingInputs :
       (/\ Len(RatingsOf(db, msg)) = 1
        /\ RatingsOf(db, msg)[1].judgeId # j
        /\ ProcessJudgeRating(msg, j, r))
         => LET first == RatingsOf(db, msg)[1]
                agreed == first.rating = r
            IN
            /\ calls'[1].success
            /\ calls'[1].eloUpdated
            /\ \A u \in DOMAIN db.users \ {first.judgeId, j} :
                 db'.users[u] = db.users[u]
            /\ \A u \in {first.judgeId, j} :
                 LET x == db.users[u] IN
                 db'.users[u] =
                   [x EXCEPT
                      !.judgeElo = IF agreed THEN Floored(x.judgeElo + 10)
                                   ELSE Floored(x.judgeElo - 5),
                      !.peakJudgeElo = db'.users[u].peakJudgeElo,
                      !.totalJudgeMatches = x.totalJudgeMatches + 1,
                      !.judgeAgreements =
                         IF agreed THEN x.judgeAgreements + 1 ELSE x.judgeAgreements,
                      !.judgeDisagreements =
                         IF agreed THEN x.judgeDisagreements
                         ELSE x.judgeDisagreements + 1]]_vars

\* C16 witness: two different judges have rated the message differently and
\* each has lost 5 points and booked one disagreement.
C16_Witness ==
  /\ calls[1].op = "processJudgeRating"
  /\ calls[1].eloUpdated
  /\ Len(RatingsOf(db, 1)) = 2
  /\ RatingsOf(db, 1)[1].judgeId # RatingsOf(db, 1)[2].judgeId
  /\ RatingsOf(db, 1)[1].rating # RatingsOf(db, 1)[2].rating
  /\ \A k \in 1..2 :
       /\ db.users[RatingsOf(db, 1)[k].judgeId].judgeElo = 1195
       /\ db.users[RatingsOf(db, 1)[k].judgeId].judgeDisagreements = 1

\* the sum of the ratings of the two players
EloSum(d, p1, p2) == d.users[p1].elo + d.users[p2].elo

\* C17: whenever a match ends with a determined winner the player-ELO
\* update is zero-sum: the two new ratings add up to the two old ones,
\* for every pair of starting ratings of EloInputs, rounding included.
C17_EloZeroSum ==
  [][/\ \A w \in {"u1", "u2"} :
          (calls'[1].op = "updateEloRatings" /\ UpdateEloRatings("u1", "u2", w))
            => /\ EloSum(db', "u1", "u2") = EloSum(db, "u1", "u2")
               /\ db'.users[w].elo >= db.users[w].elo
     /\ \A m \in MatchIds, u \in Callers :
          (IsActive(db, m) /\ Forfeit(m, u))
            => /\ EloSum(db', db.matches[m].player1Id, db.matches[m].player2Id)
                    = EloSum(db, db.matches[m].player1Id, db.matches[m].player2Id)
               /\ db'.matches[m].winnerId \in DOMAIN db.users]_vars

\* C17 witness: the player rated 1000 has beaten the player rated 1400 and
\* gained the 29 points the other lost.
C17_Witness ==
  /\ db.users["u1"].elo = 1029
  /\ db.users["u2"].elo = 1371
  /\ db.users["u1"].wins = 1
  /\ db.users["u2"].losses = 1
  /\ db.users["u1"].totalMatches = 1

\* C18: for two players of equal rating the update gives the winner
\* exactly 16 points and takes exactly 16 from the loser (1200/1200 becomes
\* 1216/1184), and an update without winner changes neither rating.
C18_EqualRatedUpdate ==
  [][/\ \A w \in Winners :
          (/\ calls'[1].op = "updateEloRatings"
           /\ db.users["u1"].elo = db.users["u2"].elo
           /\ UpdateEloRatings("u1", "u2", w))
            => /\ w = "u1" => /\ db'.users["u1"].elo = db.users["u1"].elo + 16
                              /\ db'.users["u2"].elo = db.users["u2"].elo - 16
               /\ w = "u2" => /\ db'.users["u1"].elo = db.users["u1"].elo - 16
                              /\ db'.users["u2"].elo = db.users["u2"].elo + 16
               /\ w = NULL => /\ db'.users["u1"].elo = db.users["u1"].elo
                              /\ db'.users["u2"].elo = db.users["u2"].elo
     /\ \A m \in MatchIds, u \in Callers :
          (/\ IsActive(db, m)
           /\ Forfeit(m, u)
           /\ db.users[db.matches[m].player1Id].elo
                = db.users[db.matches[m].player2Id].elo)
            => LET won == db'.matches[m].winnerId
                   lost == OtherPlayer(db.matches[m], won)
               IN /\ db'.users[won].elo = db.users[won].elo + 16
                  /\ db'.users[lost].elo = db.users[lost].elo - 16]_vars

\* C18 witness: 1200 against 1200, player 1 has won: 1216 and 1184.
C18_Witness ==
  /\ db.users["u1"].elo = 1216
  /\ db.users["u2"].elo = 1184
  /\ db.users["u1"].totalMatches = 1
  /\ db.users["u1"].peakElo = 1216
  /\ db.users["u2"].peakElo = 1200

\* the win, loss and match counters of a user
Counters(d, u) == <<d.users[u].totalMatches, d.users[u].wins, d.users[u].losses>>

Opponents(u) ==
  {e \in db.queue :
     /\ e.userId # u
     /\ e.matchType = "player"
     /\ now - e.joinedAt > 1000
     /\ \E own \in db.queue :
          /\ own.userId = u
          /\ LET range == 100 + ((now - own.joinedAt) \div 30000) * 50 IN
             /\ e.elo >= db.users[u].elo - range
             /\ e.elo <= db.users[u].elo + range}

\* C20: findMatch by a queued initiator forms a match whenever the queue
\* holds a player entry of another user, joined more than one second ago
\* and inside the initiator's window, and at least two judge entries; the
\* initiator's own entry does not stand in the way.  (Stated for queues
\* whose player entries joined at pairwise different times.)
C20_FindMatchForms ==
  [][\A u \in Users :
       (/\ Opponents(u) # {}
        /\ Cardinality({e \in db.queue : e.matchType = "judge"}) >= 2
        /\ \A e, f \in db.queue :
             (e.matchType = "player" /\ f.matchType = "player" /\ e # f)
               => e.joinedAt # f.joinedAt
        /\ Len(db.matches) < MaxMatches
        /\ Poll(u))
         => /\ calls'[1].success
            /\ Len(db'.matches) = Len(db.matches) + 1]_vars

\* C21: a findMatch call (through the poll route) that forms no match,
\* because the initiator is not queued, no opponent is eligible or no judge
\* is queued, changes nothing: queue, matches and users stay as they were.
C21_FailedFindMatchChangesNothing ==
  [][\A u \in Callers :
       (calls'[1].op = "poll" /\ ~calls'[1].success /\ Poll(u)) => db' = db]_vars

\* C21 witness: a poll has failed although two players have waited out the
\* grace period, and the queue and the (empty) match list are untouched.
C21_Witness ==
  /\ calls[1].op = "poll"
  /\ ~calls[1].success
  /\ Len(db.matches) = 0
  /\ Cardinality({e \in db.queue :
                    e.matchType = "player" /\ now - e.joinedAt > 1000}) >= 2

\* the users recorded in match row mr
ParticipantsOf(mr) == {mr.player1Id, mr.player2Id, mr.judge1Id, mr.judge2Id} \ {NULL}

\* C22: after a findMatch that returns success none of the users recorded
\* in the new match as player1, player2, judge1 or judge2 has a queue entry.
C22_ParticipantsLeaveQueue ==
  [][(/\ now' = now
      /\ calls'[1].op \in {"poll", "joinQueue"}
      /\ calls'[1].success
      /\ calls'[1].newMatchId # 0)
       => /\ Len(db'.matches) = Len(db.matches) + 1
          /\ calls'[1].newMatchId = Len(db'.matches)
          /\ \A e \in db'.queue :
               e.userId \notin ParticipantsOf(db'.matches[Len(db'.matches)])]_vars

\* C22 witness: a poll has formed match 1 and a queued user who is not part
\* of it is still waiting.
C22_Witness ==
  /\ calls[1].op = "poll"
  /\ calls[1].success
  /\ calls[1].newMatchId = 1
  /\ db.queue # {}
  /\ \A e \in db.queue : e.userId \notin ParticipantsOf(db.matches[1])

\* C23: no match is ever created with player1Id = player2Id: findMatch never
\* pairs the initiator with the initiator's own queue entry.
C23_NoSelfMatch ==
  \A i \in DOMAIN db.matches : db.matches[i].player1Id # db.matches[i].player2Id

\* C23 witness: all four users are queued, two as players who joined at
\* different times and have waited out the grace period, two as judges, and
\* a poll has failed: the poll of the longer-waiting player, whose search
\* returned that player's own entry.
C23_Witness ==
  /\ calls[1].op = "poll"
  /\ ~calls[1].success
  /\ Len(db.matches) = 0
  /\ {e.userId : e \in db.queue} = Users
  /\ Cardinality({e \in db.queue : e.matchType = "judge"}) = 2
  /\ \A e \in db.queue : e.matchType = "player" => now - e.joinedAt > 1000
  /\ \A e, f \in db.queue :
       (e.matchType = "player" /\ f.matchType = "player" /\ e # f)
         => e.joinedAt # f.joinedAt

\* C24: the radius a search uses is 100 + 50 * floor(t / 30000), t the
\* milliseconds since the initiator's joinedAt; as time only moves forward it
\* does not shrink while the entry stays queued, and a repeated join sets
\* joinedAt to the present, so that the next search starts from 100 again.
C24_EloRangeWidens ==
  /\ [](\A i \in DOMAIN calls :
          calls[i].pc = "fm_findMatchInQueue" =>
            \E own \in db.queue :
              /\ own.userId = calls[i].userId
              /\ calls[i].eloRange = 100 + 50 * ((now - own.joinedAt) \div 30000))
  /\ [][/\ now' >= now
        /\ \A u \in Users :
             (WindowJoin(u) /\ \E e \in db.queue : e.userId = u)
               => \A e \in db'.queue :
                    e.userId = u => /\ e.joinedAt = now
                                    /\ eloRangeOf(now - e.joinedAt) = 100]_vars

C24_Witness ==
  /\ calls[1].pc = "fm_findMatchInQueue"
  /\ now = 65000
  /\ calls[1].eloRange = 200

\* C25: the opponent a search picks is a player-type entry whose elo lies
\* within the radius of the initiator's elo and that joined more than one
\* second earlier, and no such entry joined before it; the judge it picks is
\* a judge-type entry and no judge-type entry joined before it.
C25_EarliestEligibleChosen ==
  [][\A i \in DOMAIN calls :
       LET c == calls[i]
           Eligible == {e \in db.queue :
                          /\ e.matchType = "player"
                          /\ c.userElo - c.eloRange <= e.elo
                          /\ e.elo <= c.userElo + c.eloRange
                          /\ now - e.joinedAt > 1000}
           Judges == {e \in db.queue : e.matchType = "judge"}
       IN /\ (c.pc = "fm_findMatchInQueue" /\ calls'[i].pc = "fm_findJudgeInQueue")
               => \E e \in Eligible :
                    /\ e.userId = calls'[i].opponent
                    /\ \A f \in Eligible : e.joinedAt <= f.joinedAt
          /\ (c.pc = "fm_findJudgeInQueue" /\ calls'[i].pc = "fm_createMatch")
               => \E e \in Judges :
                    /\ e.userId = calls'[i].judge
                    /\ \A f \in Judges : e.joinedAt <= f.joinedAt]_vars

\* a search at radius 150 has picked the opponent on the edge of the window
\* and the earlier of two queued judges, while a younger player entry waits
C25_Witness ==
  /\ calls[1].pc = "fm_createMatch"
  /\ calls[1].userId = "u1"
  /\ calls[1].opponent = "u2"
  /\ calls[1].eloRange = 150
  /\ calls[1].judge = "u4"
  /\ \E e, f \in db.queue :
       /\ e.userId = "u4" /\ f.userId = "u3" /\ e.joinedAt < f.joinedAt

\* C26: the queue never holds two entries of one user, and a successful
\* joinQueue by a user who is already queued (and is not matched by the
\* search that follows) leaves exactly one entry of that user, carrying the
\* user's present elo, the requested matchType and the present time, while the
\* number of entries stays the same.
C26_OneEntryPerUser ==
  /\ [](\A e, f \in db.queue : e.userId = f.userId => e = f)
  /\ [][\A u \in Users, mt \in matchTypeEnum :
          (/\ calls'[1].op = "joinQueue"
           /\ calls'[1].success
           /\ calls'[1].newMatchId = 0
           /\ \E e \in db.queue : e.userId = u
           /\ JoinQueue(u, mt))
            => /\ {e \in db'.queue : e.userId = u}
                    = {[userId |-> u, elo |-> db.users[u].elo,
                        matchType |-> mt, joinedAt |-> now]}
               /\ Cardinality(db'.queue) = Cardinality(db.queue)]_vars

\* a joinQueue served after the clock has moved and after a rating change
\* leaves one entry, stamped with the present time and the present rating
C26_Witness ==
  /\ calls[1].op = "joinQueue"
  /\ calls[1].success
  /\ \E e \in db.queue :
       /\ e.joinedAt = now
       /\ now > 0
       /\ e.matchType = "judge"
       /\ e.elo # DEFAULT_ELO
       /\ Cardinality(db.queue) = 1

\* C27: a joinQueue by a user who does not exist, or who is player1, player2,
\* judge1 or judge2 of a match with status active, returns success = false
\* and leaves the queue and every match as they were.
C27_JoinQueueRejected ==
  [][\A u \in Users, mt \in matchTypeEnum :
       (/\ calls'[1].op = "joinQueue"
        /\ \/ u \notin DOMAIN db.users
           \/ \E i \in DOMAIN db.matches :
                /\ db.matches[i].status = "active"
                /\ u \in {db.matches[i].player1Id, db.matches[i].player2Id,
                          db.matches[i].judge1Id, db.matches[i].judge2Id}
        /\ JoinQueue(u, mt))
         => /\ ~calls'[1].success
            /\ db'.queue = db.queue
            /\ db'.matches = db.matches]_vars

\* a joinQueue has been refused while a match is active and somebody else
\* waits in the queue
C27_Witness ==
  /\ calls[1].op = "joinQueue"
  /\ ~calls[1].success
  /\ \E i \in DOMAIN db.matches : db.matches[i].status = "active"
  /\ db.queue # {}

\* C28: leaveQueue(u) raises no error, leaves no entry of u in the queue and
\* every other entry, every match and every user as they were; when u has no
\* entry (u has left already, or never joined) it changes nothing at all.
C28_LeaveQueueIdempotent ==
  [][\A u \in Callers :
       (calls'[1].op = "leaveQueue" /\ LeaveQueue(u))
         => /\ calls'[1].success
            /\ \A e \in db'.queue : e.userId # u
            /\ db'.queue = {e \in db.queue : e.userId # u}
            /\ db'.users = db.users
            /\ db'.matches = db.matches
            /\ ((\A e \in db.queue : e.userId # u) => db' = db)]_vars

\* a leaveQueue has been served and another user's entry is still queued
C28_Witness ==
  /\ calls[1].op = "leaveQueue"
  /\ calls[1].success
  /\ Cardinality(db.queue) = 2

\* C29: in a match with status active, currentTurn is the match's player1Id
\* or its player2Id, whatever messages have been sent.
C29_TurnIsAPlayer ==
  \A i \in DOMAIN db.matches :
    db.matches[i].status = "active"
      => db.matches[i].currentTurn
           \in {db.matches[i].player1Id, db.matches[i].player2Id}

\* an active match after two accepted messages, the turn back with player1,
\* who is neither player2 nor the judge
C29_Witness ==
  /\ db.matches[1].status = "active"
  /\ Len(MessagesOf(1)) = 2
  /\ db.matches[1].currentTurn = db.matches[1].player1Id
  /\ db.matches[1].player1Id \notin {db.matches[1].player2Id, db.matches[1].judge1Id}
  /\ calls[1].op = "sendMessage"
  /\ calls[1].success

\* C30: every persisted message has content that is trimmed and not empty
\* (a sendMessage with empty or whitespace-only content persists nothing).
C30_ContentTrimmedNonEmpty ==
  \A k \in DOMAIN db.messages :
    /\ db.messages[k].content # ""
    /\ trim(db.messages[k].content) = db.messages[k].content

\* C31: a request during which a storage call was rejected still returns a
\* result, and that result has success = false (leaveQueue alone returns
\* normally).
C31_FailureMeansNoSuccess ==
  (calls[1].fault = "thrown" /\ calls[1].op # "leaveQueue") => ~calls[1].success

\* C32: whatever the interleaving of endMatch calls on one match, the ELO
\* and win/loss/totalMatches update is applied at most once for that match:
\* no user is booked more matches than matches that user has played to an
\* end.
C32_EloUpdateOncePerMatch ==
  \A u \in DOMAIN db.users :
    db.users[u].totalMatches
      <= Cardinality({i \in DOMAIN db.matches :
                        /\ u \in {db.matches[i].player1Id, db.matches[i].player2Id}
                        /\ db.matches[i].status # "active"})

\* C33: whatever the interleaving of a sendMessage with an endMatch, once the
\* status of the match is no longer active no message is persisted and the
\* turn is not written.
C33_NoWriteAfterEnd ==
  [][db.matches[1].status # "active"
       => /\ db'.messages = db.messages
          /\ db'.matches[1].currentTurn = db.matches[1].currentTurn]_vars

\* C36: from one storage write to the next the status of a match moves only
\* from waiting to active, from active to completed or from active to
\* forfeit.
C36_StatusTransitions ==
  [][\A i \in DOMAIN db.matches :
       \/ db'.matches[i].status = db.matches[i].status
       \/ <<db.matches[i].status, db'.matches[i].status>>
            \in {<<"waiting", "active">>, <<"active", "completed">>,
                 <<"active", "forfeit">>}]_vars

\* C34: a forfeit requested by a user who is neither player1 nor player2 of
\* the active match (its judge, an outsider) does not end it and awards no
\* win: the match row and every user row stay as they were.
C34_OnlyPlayersForfeit ==
  [][\A m \in MatchIds, u \in Callers :
       (/\ calls'[1].op = "endMatch"
        /\ m \in DOMAIN db.matches
        /\ db.matches[m].status = "active"
        /\ u \notin {db.matches[m].player1Id, db.matches[m].player2Id}
        /\ Forfeit(m, u))
         => /\ db'.matches[m] = db.matches[m]
            /\ db'.users = db.users]_vars

\* C35: every recorded rating was given by judge1 or judge2 of the match
\* that owns the rated message.
C35_OnlyJudgesRate ==
  \A k \in DOMAIN db.ratings :
    LET mr == db.matches[db.messages[db.ratings[k].messageId].matchId] IN
    db.ratings[k].judgeId \in {mr.judge1Id, mr.judge2Id}

\* C37: every user has totalMatches = wins + losses and
\* totalJudgeMatches = judgeAgreements + judgeDisagreements.
C37_TotalsAddUp ==
  \A u \in DOMAIN db.users :
    /\ db.users[u].totalMatches = db.users[u].wins + db.users[u].losses
    /\ db.users[u].totalJudgeMatches
         = db.users[u].judgeAgreements + db.users[u].judgeDisagreements

\* C38: every user has peakElo >= elo and peakJudgeElo >= judgeElo.
C38_PeakAboveCurrent ==
  \A u \in DOMAIN db.users :
    /\ db.users[u].peakElo >= db.users[u].elo
    /\ db.users[u].peakJudgeElo >= db.users[u].judgeElo

\* a forfeit has been booked as a win and a loss, and a disagreement of two
\* raters as a judge match of each
C37_Witness ==
  /\ \E u, v \in DOMAIN db.users :
       /\ db.users[u].wins = 1 /\ db.users[u].totalMatches = 1
       /\ db.users[v].losses = 1 /\ db.users[v].totalMatches = 1
  /\ \E u \in DOMAIN db.users :
       db.users[u].judgeDisagreements = 1 /\ db.users[u].totalJudgeMatches = 1

\* a player has lost rating points and a judge has been penalised: both
\* ratings are below their peaks
C38_Witness ==
  /\ \E u \in DOMAIN db.users : db.users[u].peakElo > db.users[u].elo
  /\ \E u \in DOMAIN db.users : db.users[u].peakJudgeElo > db.users[u].judgeElo
  /\ \E u \in DOMAIN db.users : db.users[u].peakElo = db.users[u].elo
                                 /\ db.users[u].elo > DEFAULT_ELO

\* C39: from a state in which two player entries rated within 100 of each
\* other and a judge entry are queued, with every queued user polling and
\* time passing, a match between the two queued players is eventually formed.
C39_MatchEventuallyForms ==
  (/\ \E e, f \in db.queue :
        /\ e.matchType = "player" /\ f.matchType = "player"
        /\ e.userId # f.userId
        /\ e.elo - f.elo <= 100 /\ f.elo - e.elo <= 100
   /\ \E j \in db.queue : j.matchType = "judge")
    ~> (\E i \in DOMAIN db.matches :
          {db.matches[i].player1Id, db.matches[i].player2Id} = {"u1", "u2"})

\* C40: after every completed operation no user with a queue entry is
\* player1, player2, judge1 or judge2 of a match with status active.
C40_QueuedNotInActiveMatch ==
  \A e \in db.queue :
    \A i \in DOMAIN db.matches :
      db.matches[i].status = "active"
        => e.userId \notin {db.matches[i].player1Id, db.matches[i].player2Id,
                            db.matches[i].judge1Id, db.matches[i].judge2Id}

\* a message has been accepted in an active match while a user who is not
\* part of that match waits in the queue
C40_Witness ==
  /\ calls[1].op = "sendMessage"
  /\ calls[1].success
  /\ db.queue # {}
  /\ \E i \in DOMAIN db.matches : db.matches[i].status = "active"

====
